---- MODULE Spec2Model ----
(***************************************************************************)
(* Position lifecycle and conditional buyback of the GALA trading bot.     *)
(*                                                                         *)
(* TradingService (executeSwap, logTradeExecution, monitorOpenPositions,   *)
(* checkPositionForBuyback, executeBuyback) and utils/pnl.js are modelled  *)
(* from the source.  The open_positions methods of DatabaseService         *)
(* (createOpenPosition, getOpenPositions, closePosition,                   *)
(* markPositionFailed) are not part of the source tree and are modelled    *)
(* from the repository contract of the specification.                      *)
(*                                                                         *)
(* Numbers: amounts are whole units; a price is kept in 1/PriceScale       *)
(* units; a threshold fraction is kept in 1/FractionScale units.           *)
(***************************************************************************)
EXTENDS Integers, Sequences, FiniteSets, TLC

VARIABLES positions, trades, recentTrade, isDryRun, faults, mon, ret, pending

(* pending holds the executeSwap calls that are suspended at an await; it   *)
(* stays empty where every call runs to its end before the next begins.     *)
vars == <<positions, trades, recentTrade, isDryRun, faults, mon, ret, pending>>

(* ------------------------------ bounds -------------------------------- *)

MaxTrades == 2
MaxFaults == 1

(* ------------------------- program constants -------------------------- *)

minTradeAmount == 1
maxTradeAmount == 100
maxRetries == 5
DefaultProfitThreshold == 5
DefaultLossThreshold == -2
FractionScale == 100
PriceScale == 100
Null == 0

GALA == <<"GALA", "Unit", "none", "none">>
GUSDC == <<"GUSDC", "Unit", "none", "none">>
TokenIds == {GALA, GUSDC}

(* --------------------------- input domains ---------------------------- *)

Amounts == {0, 50, 200}
QuoteFail == -1
QuoteOuts == {QuoteFail, 0, 50, 2000}
(* Quotes seen when GALA is sold for a token, and when a token is sold back. *)
EntryQuoteOuts == {QuoteFail, 50, 2000}
ExitQuoteOuts == {QuoteFail, 0, 50}
PriceLevels == {0, 98, 99, 100, 104, 105}

SwapEnvs ==
  [quoteOut : QuoteOuts, swapOk : BOOLEAN, logOk : BOOLEAN, createOk : BOOLEAN]

BuybackEnvs ==
  [swap : SwapEnvs, closeOk : BOOLEAN, markOk : BOOLEAN, notifyOk : BOOLEAN]

PriceReplies(entry_price) ==
  {[kind |-> "throw", price |-> 0], [kind |-> "fail", price |-> 0]}
  \cup {[kind |-> "ok", price |-> (entry_price * k) \div 100] : k \in PriceLevels}

(* ---------------------------- utils/pnl.js ---------------------------- *)

calculatePnLPercentage(entryPrice, currentPrice) ==
  IF entryPrice <= 0 THEN [ok |-> FALSE, value |-> 0]
  ELSE IF currentPrice = 0 \/ currentPrice < 0 THEN [ok |-> FALSE, value |-> 0]
  ELSE [ok |-> TRUE, value |-> ((currentPrice - entryPrice) * 100) \div entryPrice]

(* An evaluator that asks for a buyback whatever the thresholds. *)
shouldBuybackEvenOnHold(pnlPercentage, profitThreshold, lossThreshold) ==
  IF pnlPercentage >= profitThreshold
    THEN [shouldBuy |-> TRUE, reason |-> "PROFIT_TARGET"]
  ELSE IF pnlPercentage <= lossThreshold
    THEN [shouldBuy |-> TRUE, reason |-> "STOP_LOSS"]
  ELSE [shouldBuy |-> TRUE, reason |-> "HOLD"]

(* An evaluator whose thresholds are exclusive. *)
shouldBuybackStrict(pnlPercentage, profitThreshold, lossThreshold) ==
  IF pnlPercentage > profitThreshold
    THEN [shouldBuy |-> TRUE, reason |-> "PROFIT_TARGET"]
  ELSE IF pnlPercentage < lossThreshold
    THEN [shouldBuy |-> TRUE, reason |-> "STOP_LOSS"]
  ELSE [shouldBuy |-> FALSE, reason |-> "HOLD"]

shouldBuyback(pnlPercentage, profitThreshold, lossThreshold) ==
  IF pnlPercentage >= profitThreshold
    THEN [shouldBuy |-> TRUE, reason |-> "PROFIT_TARGET"]
  ELSE IF pnlPercentage <= lossThreshold
    THEN [shouldBuy |-> TRUE, reason |-> "STOP_LOSS"]
  ELSE [shouldBuy |-> FALSE, reason |-> "HOLD"]

calculateFinalPnL(initialGalaAmount, finalGalaAmount) ==
  IF initialGalaAmount <= 0 THEN [ok |-> FALSE, absolutePnL |-> 0]
  ELSE IF finalGalaAmount = 0 \/ finalGalaAmount < 0 THEN [ok |-> FALSE, absolutePnL |-> 0]
  ELSE [ok |-> TRUE, absolutePnL |-> finalGalaAmount - initialGalaAmount]

ThresholdToPercent(fraction) == (fraction * 100) \div FractionScale

(* ------------------- position repository (contract) ------------------- *)

createOpenPosition(pos, data) ==
  Append(pos, [gala_symbol |-> data.gala_symbol,
               entry_trade_id |-> data.entry_trade_id,
               entry_price |-> data.entry_price,
               entry_amount |-> data.entry_amount,
               token_amount |-> data.token_amount,
               profit_threshold |-> DefaultProfitThreshold,
               loss_threshold |-> DefaultLossThreshold,
               status |-> "OPEN",
               close_trade_id |-> Null,
               closed_at |-> Null,
               retry_count |-> 0,
               notes |-> <<"opened">>])

getOpenPositions(pos) ==
  SelectSeq([i \in 1..Len(pos) |-> i], LAMBDA i : pos[i].status = "OPEN")

closePositionFound(pos, positionId) ==
  positionId \in 1..Len(pos) /\ pos[positionId].status = "OPEN"

closePosition(pos, positionId, closeTradeId, note) ==
  [pos EXCEPT ![positionId].status = "CLOSED",
              ![positionId].close_trade_id = closeTradeId,
              ![positionId].closed_at = 1,
              ![positionId].notes = Append(@, note)]

markPositionFailed(pos, positionId, note) ==
  IF positionId \in 1..Len(pos)
    THEN [pos EXCEPT ![positionId].status = "FAILED",
                     ![positionId].notes = Append(@, note)]
    ELSE pos

(* --------------------------- TradingService --------------------------- *)

formatTokenName(tokenSymbol) ==
  IF Len(tokenSymbol) > 1 THEN Head(tokenSymbol) ELSE tokenSymbol[1]

logTradeExecution(trd, fromToken, toToken, status, dryRun, logOk) ==
  LET fromSymbol == formatTokenName(fromToken)
      toSymbol == formatTokenName(toToken)
      side == IF fromSymbol = "GALA" THEN "SELL"
              ELSE IF toSymbol = "GALA" THEN "BUY" ELSE "SWAP"
  IN IF logOk
       THEN [trades |-> Append(trd, [side |-> side, status |-> status]),
             tradeId |-> Len(trd) + 1]
       ELSE [trades |-> trd, tradeId |-> Null]

World == [positions |-> positions, trades |-> trades, recentTrade |-> recentTrade]

(* A swap that asks for its quote before it looks at the amount. *)
SwapRejectionQuoteFirst(w, amount, dryRun, env) ==
  IF env.quoteOut = QuoteFail THEN "quote"
  ELSE IF amount < minTradeAmount \/ amount > maxTradeAmount THEN "range"
  ELSE IF w.recentTrade THEN "wait"
  ELSE IF ~dryRun /\ ~env.swapOk THEN "swap"
  ELSE "none"

SwapRejection(w, amount, dryRun, env) ==
  IF amount < minTradeAmount \/ amount > maxTradeAmount THEN "range"
  ELSE IF w.recentTrade THEN "wait"
  ELSE IF env.quoteOut = QuoteFail THEN "quote"
  ELSE IF ~dryRun /\ ~env.swapOk THEN "swap"
  ELSE "none"

(* Inputs that cannot influence the call are fixed to TRUE. *)
SwapEnvsFor(w, fromToken, amount, dryRun) ==
  {e \in SwapEnvs :
     LET early == SwapRejection(w, amount, dryRun, e) \in {"range", "wait", "quote"}
         failed == SwapRejection(w, amount, dryRun, e) # "none"
     IN /\ e.quoteOut \in (IF formatTokenName(fromToken) = "GALA"
                            THEN EntryQuoteOuts ELSE ExitQuoteOuts)
        /\ (SwapRejection(w, amount, dryRun, e) \in {"range", "wait"}) => e.quoteOut = QuoteFail
        /\ (early \/ dryRun) => e.swapOk
        /\ (failed \/ ~e.logOk \/ formatTokenName(fromToken) # "GALA") => e.createOk}

(* A swap that goes to the exchange whatever the dry-run flag says. *)
swapSubmittedEvenInDryRun(dryRun, rejection) == rejection \in {"swap", "none"}

(* gSwap.swaps.swap is called when the guards and the quote have passed and *)
(* the dry-run branch has not returned before it.                          *)
swapSubmitted(dryRun, rejection) == ~dryRun /\ rejection \in {"swap", "none"}

executeSwap(w, fromToken, toToken, amount, dryRun, env) ==
  LET rejection == SwapRejection(w, amount, dryRun, env)
  IN IF rejection # "none"
       THEN LET lg == logTradeExecution(w.trades, fromToken, toToken, "FAILED", dryRun, env.logOk)
            IN [w |-> [w EXCEPT !.trades = lg.trades],
                result |-> [success |-> FALSE, dryRun |-> dryRun, outAmount |-> 0,
                            submitted |-> swapSubmitted(dryRun, rejection),
                            error |-> rejection, tradeId |-> Null]]
       ELSE LET executedPrice == (env.quoteOut * PriceScale) \div amount
                lg == logTradeExecution(w.trades, fromToken, toToken, "COMPLETED", dryRun, env.logOk)
                tracks == formatTokenName(fromToken) = "GALA" /\ lg.tradeId # Null /\ env.createOk
                pos2 == IF tracks
                          THEN createOpenPosition(w.positions,
                                 [gala_symbol |-> toToken, entry_trade_id |-> lg.tradeId,
                                  entry_price |-> executedPrice, entry_amount |-> amount,
                                  token_amount |-> env.quoteOut])
                          ELSE w.positions
            IN [w |-> [positions |-> pos2, trades |-> lg.trades,
                       recentTrade |-> IF swapSubmitted(dryRun, rejection)
                                         THEN TRUE ELSE w.recentTrade],
                result |-> [success |-> TRUE, dryRun |-> dryRun, outAmount |-> env.quoteOut,
                            submitted |-> swapSubmitted(dryRun, rejection),
                            error |-> "none", tradeId |-> lg.tradeId]]

(* A catch block that only logs the failure. *)
buybackCatchOnlyLogs(w, positionId, markOk) == w

(* A catch block that also counts the failure as a retry. *)
buybackCatchCountsRetry(w, positionId, markOk) ==
  IF markOk
    THEN [w EXCEPT !.positions =
            [markPositionFailed(@, positionId, "failed")
               EXCEPT ![positionId].retry_count = @ + 1]]
    ELSE w

(* A catch block that gives up every position. *)
buybackCatchMarksEveryPosition(w, positionId, markOk) ==
  [w EXCEPT !.positions = [i \in 1..Len(w.positions) |->
                             [w.positions[i] EXCEPT !.status = "FAILED"]]]

(* catch block of executeBuyback: the position is marked FAILED; a failure *)
(* of that write is logged and swallowed.                                 *)
buybackCatch(w, positionId, markOk) ==
  IF markOk
    THEN [w EXCEPT !.positions = markPositionFailed(@, positionId, "failed")]
    ELSE w

(* A notification step that writes the position off as emptied. *)
notifyBuybackClearsTokenAmount(w, positionId, notifyOk) ==
  [w EXCEPT !.positions[positionId].token_amount = 0]

(* A notification step whose failure is taken for a failure of the buyback. *)
notifyBuybackMarksFailed(w, positionId, notifyOk) ==
  IF notifyOk THEN w
  ELSE [w EXCEPT !.positions = markPositionFailed(@, positionId, "failed")]

(* Notification step of executeBuyback: a throwing notifier is logged and  *)
(* swallowed; nothing is written.                                          *)
notifyBuyback(w, positionId, notifyOk) == w

executeBuyback(w, positionId, dryRun, env) ==
  LET position == w.positions[positionId]
      sw == executeSwap(w, position.gala_symbol, GALA, position.token_amount, dryRun, env.swap)
      closeThrows == ~env.closeOk \/ ~closePositionFound(sw.w.positions, positionId)
  IN IF ~sw.result.success
       THEN [w |-> buybackCatch(sw.w, positionId, env.markOk),
             swapExecuted |-> FALSE, fault |-> ~env.markOk, notifyFailed |-> FALSE,
             ret |-> [success |-> FALSE, error |-> "swap", finalGalaAmount |-> 0,
                      tradeId |-> Null]]
     ELSE IF closeThrows
       THEN [w |-> buybackCatch(sw.w, positionId, env.markOk),
             swapExecuted |-> TRUE, fault |-> ~env.markOk, notifyFailed |-> FALSE,
             ret |-> [success |-> FALSE,
                      error |-> IF ~env.closeOk THEN "storage" ELSE "notfound",
                      finalGalaAmount |-> 0, tradeId |-> Null]]
     ELSE [w |-> notifyBuyback([sw.w EXCEPT !.positions =
                                  closePosition(@, positionId, Null, "closed")],
                               positionId, env.notifyOk),
           swapExecuted |-> TRUE, fault |-> FALSE, notifyFailed |-> ~env.notifyOk,
           ret |-> [success |-> TRUE, error |-> "none",
                    finalGalaAmount |-> sw.result.outAmount, tradeId |-> Null]]

BuybackEnvsFor(w, positionId, dryRun) ==
  LET position == w.positions[positionId]
  IN {e \in [swap : SwapEnvsFor(w, position.gala_symbol, position.token_amount, dryRun),
              closeOk : BOOLEAN, markOk : BOOLEAN, notifyOk : BOOLEAN] :
        LET swapFails == SwapRejection(w, position.token_amount, dryRun, e.swap) # "none"
            closes == ~swapFails /\ e.closeOk /\ closePositionFound(w.positions, positionId)
        IN /\ swapFails => e.closeOk
           /\ closes => e.markOk
           /\ ~closes => e.notifyOk}

NominalEnv == [swap |-> [quoteOut |-> QuoteFail, swapOk |-> TRUE, logOk |-> TRUE, createOk |-> TRUE],
               closeOk |-> TRUE, markOk |-> TRUE, notifyOk |-> TRUE]

ReachesBuyback(position, priceData) ==
  /\ priceData.kind = "ok"
  /\ calculatePnLPercentage(position.entry_price, priceData.price).ok
  /\ shouldBuyback(calculatePnLPercentage(position.entry_price, priceData.price).value,
                   ThresholdToPercent(position.profit_threshold),
                   ThresholdToPercent(position.loss_threshold)).shouldBuy

CheckEnvsFor(w, positionId, priceData, dryRun) ==
  IF ReachesBuyback(w.positions[positionId], priceData)
    THEN BuybackEnvsFor(w, positionId, dryRun)
    ELSE {NominalEnv}

(* A catch block that also gives the position up. *)
checkCatchMarksFailed(w, positionId) ==
  [w EXCEPT !.positions = markPositionFailed(@, positionId, "failed")]

(* catch block of checkPositionForBuyback: nothing is written. *)
checkCatch(w, positionId) == w

checkPositionForBuyback(w, positionId, priceData, dryRun, env) ==
  LET position == w.positions[positionId]
      pnl == calculatePnLPercentage(position.entry_price, priceData.price)
      buybackDecision == shouldBuyback(pnl.value,
                                       ThresholdToPercent(position.profit_threshold),
                                       ThresholdToPercent(position.loss_threshold))
      bb == executeBuyback(w, positionId, dryRun, env)
      finalPnL == calculateFinalPnL(position.entry_amount, bb.ret.finalGalaAmount)
      Result(decision, error, executed, failed) ==
        [positionId |-> positionId, decision |-> decision, error |-> error,
         pnl_percentage |-> IF decision = "none" THEN 0 ELSE pnl.value,
         buybackExecuted |-> executed, buybackFailed |-> failed]
  IN IF priceData.kind # "ok"
       THEN [w |-> checkCatch(w, positionId), swapExecuted |-> FALSE, fault |-> FALSE,
             notifyFailed |-> FALSE,
             result |-> Result("none", "price", FALSE, TRUE)]
     ELSE IF ~pnl.ok
       THEN [w |-> checkCatch(w, positionId), swapExecuted |-> FALSE, fault |-> FALSE,
             notifyFailed |-> FALSE,
             result |-> Result("none", "input", FALSE, TRUE)]
     ELSE IF ~buybackDecision.shouldBuy
       THEN [w |-> w, swapExecuted |-> FALSE, fault |-> FALSE, notifyFailed |-> FALSE,
             result |-> Result(buybackDecision.reason, "none", FALSE, FALSE)]
     ELSE IF bb.ret.success
       THEN [w |-> bb.w, swapExecuted |-> bb.swapExecuted, fault |-> bb.fault,
             notifyFailed |-> bb.notifyFailed,
             result |-> IF finalPnL.ok
                          THEN Result(buybackDecision.reason, "none", TRUE, FALSE)
                          ELSE Result(buybackDecision.reason, "input", TRUE, TRUE)]
     ELSE [w |-> bb.w, swapExecuted |-> bb.swapExecuted, fault |-> bb.fault,
           notifyFailed |-> bb.notifyFailed,
           result |-> Result(buybackDecision.reason, bb.ret.error, FALSE, TRUE)]

(* A loop that a failed check breaks out of. *)
monitorLoopStopsOnFailure(open, results) ==
  Len(results) < Len(open) /\ ~results[Len(results)].buybackFailed

(* The for loop of monitorOpenPositions goes on while positions remain. *)
monitorLoopContinues(open, results) == Len(results) < Len(open)

(* ------------------------------ actions ------------------------------- *)

(* ret is what the most recent call returned to its caller; swapExecuted    *)
(* tells whether that call had the exchange execute (or simulate) a swap,   *)
(* notifyFailed whether its notification was attempted and threw; dryRun    *)
(* and submitted tell of an executeSwap call whether it ran as a dry run    *)
(* and whether it called the exchange's swap.                               *)
NoReturn == [op |-> "none", success |-> FALSE, error |-> "none", swapExecuted |-> FALSE,
             notifyFailed |-> FALSE, dryRun |-> FALSE, submitted |-> FALSE,
             fromSymbol |-> "none", positionsChecked |-> 0, buybacksExecuted |-> 0,
             buybacksFailed |-> 0, results |-> <<>>]

IdleMonitor == [pc |-> "idle", open |-> <<>>, results |-> <<>>,
                buybacksExecuted |-> 0, buybacksFailed |-> 0]

(* A summary that reports the cycle failed when a buyback failed. *)
monitorSummaryFailsWithBuyback(openPositions, results, buybacksExecuted, buybacksFailed, swapExecuted) ==
  [NoReturn EXCEPT !.op = "monitorOpenPositions",
                   !.success = (buybacksFailed = 0),
                   !.swapExecuted = swapExecuted,
                   !.positionsChecked = Len(openPositions),
                   !.buybacksExecuted = buybacksExecuted,
                   !.buybacksFailed = buybacksFailed,
                   !.results = results]

(* The summary monitorOpenPositions returns after its loop. *)
monitorSummary(openPositions, results, buybacksExecuted, buybacksFailed, swapExecuted) ==
  [NoReturn EXCEPT !.op = "monitorOpenPositions",
                   !.success = TRUE,
                   !.swapExecuted = swapExecuted,
                   !.positionsChecked = Len(openPositions),
                   !.buybacksExecuted = buybacksExecuted,
                   !.buybacksFailed = buybacksFailed,
                   !.results = results]

SwapPairs == {<<GALA, GUSDC>>, <<GUSDC, GALA>>}

Init ==
  /\ positions = <<>>
  /\ trades = <<>>
  /\ recentTrade = FALSE
  /\ isDryRun \in BOOLEAN
  /\ faults = 0
  /\ mon = IdleMonitor
  /\ ret = NoReturn
  /\ pending = <<>>

SetWorld(w) ==
  /\ positions' = w.positions
  /\ trades' = w.trades
  /\ recentTrade' = w.recentTrade

(* A caller (route, command, strategy) invokes executeSwap. *)
ExecuteSwapCall ==
  \E pair \in SwapPairs, amount \in Amounts, dryRun \in BOOLEAN :
  \E env \in SwapEnvsFor(World, pair[1], amount, dryRun) :
    /\ Len(trades) < MaxTrades
    /\ LET r == executeSwap(World, pair[1], pair[2], amount, dryRun, env)
       IN /\ SetWorld(r.w)
          /\ ret' = [NoReturn EXCEPT !.op = "executeSwap",
                                     !.success = r.result.success,
                                     !.error = r.result.error,
                                     !.swapExecuted = r.result.success,
                                     !.dryRun = r.result.dryRun,
                                     !.submitted = r.result.submitted,
                                     !.fromSymbol = formatTokenName(pair[1])]
    /\ UNCHANGED <<isDryRun, faults, mon, pending>>

(* A caller invokes executeBuyback directly on a position record.  The     *)
(* number of such calls is bounded through the trade log they write.       *)
ExecuteBuybackOn(positionId) ==
  \E env \in BuybackEnvsFor(World, positionId, isDryRun) :
    /\ Len(trades) < MaxTrades
    /\ env.swap.logOk
    /\ LET r == executeBuyback(World, positionId, isDryRun, env)
       IN /\ r.fault => faults < MaxFaults
          /\ faults' = IF r.fault THEN faults + 1 ELSE faults
          /\ SetWorld(r.w)
          /\ ret' = [NoReturn EXCEPT !.op = "executeBuyback",
                                     !.success = r.ret.success,
                                     !.error = r.ret.error,
                                     !.swapExecuted = r.swapExecuted,
                                     !.notifyFailed = r.notifyFailed]
    /\ UNCHANGED <<isDryRun, mon, pending>>

ExecuteBuybackCall == \E positionId \in 1..Len(positions) : ExecuteBuybackOn(positionId)

(* A monitor that looks the price oracle up before it looks at the list. *)
MonitorStartOracleFirst ==
  /\ mon.pc = "idle"
  /\ \E loadOk \in BOOLEAN, oracleOk \in BOOLEAN :
       LET open == getOpenPositions(positions)
           Summary == [NoReturn EXCEPT !.op = "monitorOpenPositions"]
       IN IF ~loadOk
            THEN /\ ret' = [Summary EXCEPT !.error = "storage"]
                 /\ mon' = mon
          ELSE IF ~oracleOk
            THEN /\ ret' = [Summary EXCEPT !.error = "oracle"]
                 /\ mon' = mon
          ELSE IF Len(open) = 0
            THEN /\ ret' = [Summary EXCEPT !.success = TRUE]
                 /\ mon' = mon
          ELSE /\ mon' = [IdleMonitor EXCEPT !.pc = "checking", !.open = open]
               /\ ret' = NoReturn
  /\ UNCHANGED <<positions, trades, recentTrade, isDryRun, faults, pending>>

(* monitorOpenPositions up to the start of its loop. *)
MonitorStart ==
  /\ mon.pc = "idle"
  /\ \E loadOk \in BOOLEAN, oracleOk \in BOOLEAN :
       LET open == getOpenPositions(positions)
           Summary == [NoReturn EXCEPT !.op = "monitorOpenPositions"]
       IN IF ~loadOk
            THEN /\ ret' = [Summary EXCEPT !.error = "storage"]
                 /\ mon' = mon
          ELSE IF Len(open) = 0
            THEN /\ ret' = [Summary EXCEPT !.success = TRUE]
                 /\ mon' = mon
          ELSE IF ~oracleOk
            THEN /\ ret' = [Summary EXCEPT !.error = "oracle"]
                 /\ mon' = mon
          ELSE /\ mon' = [IdleMonitor EXCEPT !.pc = "checking", !.open = open]
               /\ ret' = NoReturn
  /\ UNCHANGED <<positions, trades, recentTrade, isDryRun, faults, pending>>

(* One iteration of the monitoring loop; after the last one the summary is returned. *)
MonitorCheck ==
  /\ mon.pc = "checking"
  /\ LET positionId == mon.open[Len(mon.results) + 1]
     IN \E priceData \in PriceReplies(positions[positionId].entry_price) :
        \E env \in CheckEnvsFor(World, positionId, priceData, isDryRun) :
          LET r == checkPositionForBuyback(World, positionId, priceData, isDryRun, env)
              results == Append(mon.results, r.result)
              buybacksExecuted == IF r.result.buybackExecuted
                                    THEN mon.buybacksExecuted + 1 ELSE mon.buybacksExecuted
              buybacksFailed == IF ~r.result.buybackExecuted /\ r.result.buybackFailed
                                  THEN mon.buybacksFailed + 1 ELSE mon.buybacksFailed
          IN /\ r.fault => faults < MaxFaults
             /\ faults' = IF r.fault THEN faults + 1 ELSE faults
             /\ SetWorld(r.w)
             /\ IF monitorLoopContinues(mon.open, results)
                  THEN /\ mon' = [mon EXCEPT !.results = results,
                                             !.buybacksExecuted = buybacksExecuted,
                                             !.buybacksFailed = buybacksFailed]
                       /\ ret' = [NoReturn EXCEPT !.op = "checkPositionForBuyback",
                                                  !.swapExecuted = r.swapExecuted,
                                                  !.notifyFailed = r.notifyFailed]
                  ELSE /\ mon' = IdleMonitor
                       /\ ret' = [monitorSummary(mon.open, results, buybacksExecuted,
                                                 buybacksFailed, r.swapExecuted)
                                    EXCEPT !.notifyFailed = r.notifyFailed]
  /\ UNCHANGED <<isDryRun, pending>>

(* minTimeBetweenTrades elapses since the last live trade. *)
Tick ==
  /\ recentTrade
  /\ recentTrade' = FALSE
  /\ UNCHANGED <<positions, trades, isDryRun, faults, mon, ret, pending>>

Next ==
  \/ ExecuteSwapCall
  \/ ExecuteBuybackCall
  \/ MonitorStart
  \/ MonitorCheck
  \/ Tick

Spec == Init /\ [][Next]_vars

(* The scheduler starts a monitoring cycle again and again, the storage   *)
(* eventually answers the load, and the price source eventually answers   *)
(* with a price the evaluator accepts.                                    *)
MonitorLoads == MonitorStart /\ mon'.pc = "checking"

NewResult == IF mon'.pc = "checking" THEN mon'.results[Len(mon'.results)]
                                     ELSE ret'.results[Len(ret'.results)]

CheckStep == mon.pc = "checking" /\ mon' # mon

CheckedId == mon.open[Len(mon.results) + 1]

MonitorDecides == MonitorCheck /\ NewResult.decision # "none"

LiveSpec == Spec /\ WF_vars(MonitorLoads) /\ WF_vars(MonitorCheck) /\ SF_vars(MonitorDecides)

PosIds == 1..MaxTrades

IsOpen(p) == p <= Len(positions) /\ positions[p].status = "OPEN"

IsTerminal(p) == p <= Len(positions) /\ positions[p].status \in {"CLOSED", "FAILED"}

ExitDecisions == {"PROFIT_TARGET", "STOP_LOSS"}

(* ------------------------------ C1 ------------------------------ *)

C2_TerminalIsAbsorbing ==
  [][\A p \in 1..Len(positions) :
       positions[p].status \in {"CLOSED", "FAILED"}
         => positions'[p].status = positions[p].status]_vars

(* ------------------------------ C3 ------------------------------ *)

(* C3: when the exit swap of a monitored position fails and the position's *)
(* retry count plus one is below maxRetries, the position stays OPEN and   *)
(* its retry count grows by one.                                           *)
C3_FailureBelowLimitKeepsOpen ==
  [][(CheckStep /\ NewResult.error = "swap"
        /\ positions[CheckedId].status = "OPEN"
        /\ positions[CheckedId].retry_count + 1 < maxRetries)
       => /\ positions'[CheckedId].status = "OPEN"
          /\ positions'[CheckedId].retry_count = positions[CheckedId].retry_count + 1]_vars

(* ------------------------------ C4 ------------------------------ *)

(* C4: when the exit swap of a monitored position fails and the position's *)
(* retry count plus one reaches maxRetries, the position is FAILED after   *)
(* that same step, and no position is OPEN with maxRetries or more retries. *)
C4_FailureAtLimitFails ==
  [][/\ (CheckStep /\ NewResult.error = "swap"
          /\ positions[CheckedId].status = "OPEN"
          /\ positions[CheckedId].retry_count + 1 >= maxRetries)
         => positions'[CheckedId].status = "FAILED"
     /\ \A p \in 1..Len(positions') :
          positions'[p].status = "OPEN" => positions'[p].retry_count < maxRetries]_vars

(* ------------------------------ C5 ------------------------------ *)

(* C5: a position is FAILED exactly when its retry count has reached maxRetries. *)
C5_FailedIffRetriesExhausted ==
  \A p \in 1..Len(positions) :
    positions[p].status = "FAILED" <=> positions[p].retry_count >= maxRetries

(* ------------------------------ C6 ------------------------------ *)

(* C6: a check whose price lookup throws, reports failure or yields no     *)
(* usable price answers buybackExecuted = false and buybackFailed = true,  *)
(* executes no swap and leaves every position and the trade log as they were. *)
C6_PriceFailureTouchesNothing ==
  [][(CheckStep /\ NewResult.decision = "none")
       => /\ NewResult.error \in {"price", "input"}
          /\ ~NewResult.buybackExecuted
          /\ NewResult.buybackFailed
          /\ ~ret'.swapExecuted
          /\ positions' = positions
          /\ trades' = trades
          /\ recentTrade' = recentTrade]_vars

C6_Witness ==
  /\ ret.op = "monitorOpenPositions"
  /\ \E i \in 1..Len(ret.results), j \in 1..Len(ret.results) :
       /\ ret.results[i].error = "price"
       /\ ret.results[j].error = "input"
       /\ ret.results[j].decision = "none"
       /\ positions[ret.results[i].positionId].status = "OPEN"
       /\ positions[ret.results[i].positionId].notes = <<"opened">>
       /\ positions[ret.results[j].positionId].status = "OPEN"

(* ------------------------------ C7 ------------------------------ *)

(* C7: a failed check never ends the cycle early: the cycle goes on to the *)
(* next loaded position, and the summary it returns is successful, counts  *)
(* every loaded position and holds one result per loaded position.         *)
C7_BatchSurvivesFailures ==
  [][CheckStep
       => /\ (NewResult.buybackFailed /\ Len(mon.results) + 1 < Len(mon.open))
              => /\ mon'.pc = "checking"
                 /\ mon'.open = mon.open
          /\ mon'.pc = "idle"
              => /\ ret'.op = "monitorOpenPositions"
                 /\ ret'.success
                 /\ ret'.positionsChecked = Len(mon.open)
                 /\ Len(ret'.results) = Len(mon.open)
                 /\ \A i \in 1..Len(mon.open) : ret'.results[i].positionId = mon.open[i]]_vars

C7_Witness ==
  /\ ret.op = "monitorOpenPositions"
  /\ ret.success
  /\ ret.positionsChecked = 2
  /\ ret.results[1].buybackFailed
  /\ ret.results[1].error \in {"price", "input", "swap", "storage"}
  /\ ret.results[2].decision \in ExitDecisions \cup {"HOLD"}

(* ------------------------------ C8 ------------------------------ *)

(* C8: executeBuyback on a position that is not OPEN is rejected with      *)
(* InvalidState, executes no swap and changes nothing in the repository.   *)
C8_NonOpenBuybackRejected ==
  [][\A p \in 1..Len(positions) :
       (ExecuteBuybackOn(p) /\ positions[p].status # "OPEN")
         => /\ ret'.error = "InvalidState"
            /\ ~ret'.swapExecuted
            /\ positions' = positions
            /\ trades' = trades]_vars

(* ------------------------------ C9 ------------------------------ *)

(* C9: a position is CLOSED exactly when both its close trade id and its   *)
(* close time are set.                                                     *)
C9_ClosedIffCloseFieldsSet ==
  \A p \in 1..Len(positions) :
    positions[p].status = "CLOSED"
      <=> (positions[p].close_trade_id # Null /\ positions[p].closed_at # Null)

(* ------------------------------ C10 ----------------------------- *)

(* C10: every successful swap out of GALA, live or dry run, appends one    *)
(* completed entry trade and exactly one OPEN position that refers to it.  *)
C10_EntrySwapOpensPosition ==
  [][(ExecuteSwapCall /\ ret'.op = "executeSwap" /\ ret'.success /\ ret'.fromSymbol = "GALA")
       => /\ Len(trades') = Len(trades) + 1
          /\ Len(positions') = Len(positions) + 1
          /\ positions'[Len(positions')].status = "OPEN"
          /\ positions'[Len(positions')].entry_trade_id = Len(trades')]_vars

(* ------------------------------ C11 ----------------------------- *)

(* getQuote hands the request to the exchange and reports what it answers. *)
getQuote(fromToken, toToken, amount, quoteOut) ==
  [success |-> quoteOut # QuoteFail,
   outTokenAmount |-> IF quoteOut # QuoteFail THEN quoteOut ELSE 0,
   error |-> IF quoteOut # QuoteFail THEN "none" ELSE "quote"]

SameAssetPairs == {<<GALA, GALA>>, <<GUSDC, GUSDC>>}

(* A caller invokes getQuote with the same token on both sides. *)
SameAssetQuoteCall ==
  \E pair \in SameAssetPairs, amount \in Amounts, quoteOut \in QuoteOuts :
    LET q == getQuote(pair[1], pair[2], amount, quoteOut)
    IN /\ ret' = [NoReturn EXCEPT !.op = "getQuote",
                                  !.success = q.success,
                                  !.error = q.error,
                                  !.fromSymbol = formatTokenName(pair[1])]
       /\ UNCHANGED <<positions, trades, recentTrade, isDryRun, faults, mon, pending>>

(* A caller invokes executeSwap with the same token on both sides. *)
SameAssetSwapCall ==
  \E pair \in SameAssetPairs, amount \in Amounts, dryRun \in BOOLEAN :
  \E env \in SwapEnvsFor(World, pair[1], amount, dryRun) :
    /\ Len(trades) < MaxTrades
    /\ LET r == executeSwap(World, pair[1], pair[2], amount, dryRun, env)
       IN /\ SetWorld(r.w)
          /\ ret' = [NoReturn EXCEPT !.op = "executeSwap",
                                     !.success = r.result.success,
                                     !.error = r.result.error,
                                     !.swapExecuted = r.result.success,
                                     !.dryRun = r.result.dryRun,
                                     !.submitted = r.result.submitted,
                                     !.fromSymbol = formatTokenName(pair[1])]
    /\ UNCHANGED <<isDryRun, faults, mon, pending>>

(* Callers that pass any pair of tokens, and buybacks of the positions     *)
(* that result.                                                            *)
PairNext ==
  \/ SameAssetQuoteCall
  \/ SameAssetSwapCall
  \/ ExecuteSwapCall
  \/ ExecuteBuybackCall
  \/ Tick

PairSpec == Init /\ [][PairNext]_vars

(* C11: a quote or swap request with the same token on both sides fails    *)
(* with the invalid-pair error, and the exchange is asked for no quote and  *)
(* executes no swap.                                                       *)
C11_SameAssetFailsFast ==
  [][(SameAssetQuoteCall \/ SameAssetSwapCall)
       => /\ ~ret'.success
          /\ ret'.error = "pair"
          /\ ~ret'.swapExecuted]_vars

(* ------------------------------ C12 ----------------------------- *)

(* The exchange and the storage answer every request. *)
SucceedingEnv ==
  [swap |-> [quoteOut |-> 50, swapOk |-> TRUE, logOk |-> TRUE, createOk |-> TRUE],
   closeOk |-> TRUE, markOk |-> TRUE, notifyOk |-> TRUE]

(* Two iterations of the monitoring loop, on position first and then on    *)
(* position second.                                                        *)
CheckInOrder(w, first, second, priceFirst, priceSecond) ==
  LET a == checkPositionForBuyback(w, first, priceFirst, isDryRun, SucceedingEnv)
      b == checkPositionForBuyback(a.w, second, priceSecond, isDryRun, SucceedingEnv)
  IN [first |-> a.result, second |-> b.result, positions |-> b.w.positions]

(* C12: for any two open positions and any prices, checking them in one    *)
(* order or the other gives each position the same result and leaves the   *)
(* same position records.                                                  *)
C12_OrderIndependent ==
  \A p \in 1..Len(positions), q \in 1..Len(positions) :
    (p # q /\ positions[p].status = "OPEN" /\ positions[q].status = "OPEN")
      => \A pp \in PriceReplies(positions[p].entry_price),
            pq \in PriceReplies(positions[q].entry_price) :
           LET x == CheckInOrder(World, p, q, pp, pq)
               y == CheckInOrder(World, q, p, pq, pp)
           IN /\ x.first = y.second
              /\ x.second = y.first
              /\ x.positions = y.positions

(* ------------------------------ C13 ----------------------------- *)

MonitorReturns == (MonitorStart \/ MonitorCheck) /\ ret'.op = "monitorOpenPositions"

(* C13 as stated: a monitoring cycle reports success false exactly when    *)
(* the initial load of the open positions failed.                          *)
C13_FailsOnlyOnLoad ==
  [][MonitorReturns => (ret'.success <=> ret'.error # "storage")]_vars

(* C13: a monitoring cycle reports success false exactly when the initial  *)
(* load failed or, with open positions loaded, the price oracle service is *)
(* not available; a cycle that reached its loop reports success true       *)
(* whatever its checks did.                                                *)
C13_FailsOnLoadOrOracle ==
  [][MonitorReturns
       => /\ ret'.success <=> ret'.error \notin {"storage", "oracle"}
          /\ ret'.error = "oracle" => Len(getOpenPositions(positions)) > 0
          /\ mon.pc = "checking" => ret'.success
          /\ ~ret'.success => ret'.positionsChecked = 0 /\ ret'.results = <<>>]_vars

C13_Witness ==
  /\ ret.op = "monitorOpenPositions"
  /\ ret.success
  /\ ret.buybacksFailed > 0
  /\ \E i \in 1..Len(ret.results) : ret.results[i].error \in {"swap", "storage"}

(* ------------------------------ C14 ----------------------------- *)

NewBuybacksFailed == IF mon'.pc = "checking" THEN mon'.buybacksFailed ELSE ret'.buybacksFailed

(* C14: when closing a position or marking it FAILED fails in the storage, *)
(* the check of that position reports buybackFailed, the cycle counts it   *)
(* in buybacksFailed, the records of the other positions are untouched and *)
(* the cycle goes on to the positions that remain.                         *)
C14_StorageFailureIsPerPosition ==
  [][(CheckStep /\ (NewResult.error = "storage" \/ faults' # faults))
       => /\ NewResult.positionId = CheckedId
          /\ NewResult.buybackFailed
          /\ ~NewResult.buybackExecuted
          /\ NewBuybacksFailed = mon.buybacksFailed + 1
          /\ \A q \in 1..Len(positions) : q # CheckedId => positions'[q] = positions[q]
          /\ Len(mon.results) + 1 < Len(mon.open)
               => mon'.pc = "checking" /\ mon'.open = mon.open]_vars

C14_Witness ==
  /\ ret.op = "monitorOpenPositions"
  /\ ret.positionsChecked = 2
  /\ ret.results[1].error = "storage"
  /\ ret.buybacksFailed = 1
  /\ ret.results[2].buybackExecuted
  /\ positions[ret.results[1].positionId].status = "FAILED"
  /\ positions[ret.results[2].positionId].status = "CLOSED"

(* ------------------------------ C15 ----------------------------- *)

(* C15: when the notifier throws after the exit swap and the close have    *)
(* succeeded, the position is CLOSED, executeBuyback returns success, and  *)
(* the check that called it reports buybackExecuted.                       *)
C15_NotifyFailureKeepsClose ==
  [][/\ \A p \in 1..Len(positions) :
          (ExecuteBuybackOn(p) /\ ret'.notifyFailed)
            => /\ ret'.success
               /\ ret'.swapExecuted
               /\ positions'[p].status = "CLOSED"
     /\ (CheckStep /\ ret'.notifyFailed)
          => /\ NewResult.buybackExecuted
             /\ positions'[CheckedId].status = "CLOSED"]_vars

C15_Witness ==
  /\ ret.op = "executeBuyback"
  /\ ret.notifyFailed
  /\ ret.success
  /\ \E p \in 1..Len(positions) : positions[p].status = "CLOSED"

(* ------------------------------ C16 ----------------------------- *)

(* C16: a check whose decision is HOLD executes no swap, writes no trade,  *)
(* changes no position record, so that an OPEN position stays OPEN, and    *)
(* answers buybackExecuted = false and buybackFailed = false.              *)
C16_HoldDoesNothing ==
  [][(CheckStep /\ NewResult.decision = "HOLD")
       => /\ ~ret'.swapExecuted
          /\ positions' = positions
          /\ trades' = trades
          /\ recentTrade' = recentTrade
          /\ ~NewResult.buybackExecuted
          /\ ~NewResult.buybackFailed
          /\ NewResult.error = "none"]_vars

C16_Witness ==
  /\ ret.op = "monitorOpenPositions"
  /\ \E i \in 1..Len(ret.results) :
       /\ ret.results[i].decision = "HOLD"
       /\ ~ret.results[i].buybackExecuted
       /\ ~ret.results[i].buybackFailed
       /\ positions[ret.results[i].positionId].status = "OPEN"
       /\ positions[ret.results[i].positionId].notes = <<"opened">>

(* ------------------------------ C17 ----------------------------- *)

(* C17: in every step the retry count of every position is at least what   *)
(* it was, and it differs only if the position was OPEN before the step.   *)
C17_RetryCountMonotone ==
  [][\A p \in 1..Len(positions) :
       /\ positions'[p].retry_count >= positions[p].retry_count
       /\ positions'[p].retry_count # positions[p].retry_count
            => positions[p].status = "OPEN"]_vars

C17_Witness ==
  \E p \in 1..Len(positions) :
    /\ positions[p].status = "FAILED"
    /\ positions[p].notes = <<"opened", "closed", "failed">>
    /\ positions[p].retry_count = 0

(* ------------------------------ C18 ----------------------------- *)

(* A new process: the constructor sets lastTradeTime to null; the tables   *)
(* are what the database holds.                                            *)
restart(w) == [w EXCEPT !.recentTrade = FALSE]

(* The process is stopped and started again; a monitoring cycle under way  *)
(* is lost, the configuration is read again.                               *)
Restart ==
  /\ SetWorld(restart(World))
  /\ mon' = IdleMonitor
  /\ ret' = NoReturn
  /\ pending' = <<>>
  /\ UNCHANGED <<isDryRun, faults>>

RestartNext == Next \/ Restart

RestartSpec == Init /\ [][RestartNext]_vars

(* C18: a restart changes nothing in the position records, and the check   *)
(* of any open position, at any price, gives the same result and the same  *)
(* position records after the restart as it would have given without it.   *)
C18_RestartPreservesDecisions ==
  [][Restart
       => /\ positions' = positions
          /\ \A p \in 1..Len(positions) :
               positions[p].status = "OPEN"
                 => \A priceData \in PriceReplies(positions[p].entry_price) :
                      LET without == checkPositionForBuyback(World, p, priceData,
                                                             isDryRun, SucceedingEnv)
                          after == checkPositionForBuyback(restart(World), p, priceData,
                                                           isDryRun, SucceedingEnv)
                      IN /\ after.result = without.result
                         /\ after.w.positions = without.w.positions]_vars

(* ------------------------------ C19 ----------------------------- *)

(* C19: no step removes a position or changes the entry price, the entry   *)
(* amount or the token amount of a position that exists.                   *)
C19_EntryFieldsImmutable ==
  [][/\ Len(positions') >= Len(positions)
     /\ \A p \in 1..Len(positions) :
          /\ positions'[p].entry_price = positions[p].entry_price
          /\ positions'[p].entry_amount = positions[p].entry_amount
          /\ positions'[p].token_amount = positions[p].token_amount]_vars

C19_Witness ==
  \E p \in 1..Len(positions), q \in 1..Len(positions) :
    /\ positions[p].status = "CLOSED"
    /\ positions[q].status = "FAILED"
    /\ positions[p].token_amount = 50
    /\ positions[q].token_amount = 2000
    /\ \A r \in {p, q} :
         /\ positions[r].entry_amount = 50
         /\ positions[r].entry_price = (positions[r].token_amount * PriceScale) \div 50

(* ------------------------------ C20 ----------------------------- *)

(* Values of process.env.DRY_RUN_MODE, and the JavaScript values made from *)
(* them: a string and a boolean are different values even when both read   *)
(* true.                                                                   *)
EnvValues == {"undefined", "string:true", "string:false"}

(* ConfigManager.init: process.env.DRY_RUN_MODE === 'true' || true *)
ConfigManagerInit(envValue) ==
  IF envValue = "string:true" THEN "boolean:true" ELSE "boolean:true"

(* ConfigManager.get(key): the stored value; a second argument is ignored. *)
ConfigManagerGet(stored, defaultValue) == stored

(* TradingService.onInit: this.config.get('DRY_RUN_MODE', 'true') === 'true' *)
onInit(envValue) ==
  ConfigManagerGet(ConfigManagerInit(envValue), "string:true") = "string:true"

(* The service as initialised with DRY_RUN_MODE not set. *)
DefaultConfigInit ==
  /\ positions = <<>>
  /\ trades = <<>>
  /\ recentTrade = FALSE
  /\ isDryRun = onInit("undefined")
  /\ faults = 0
  /\ mon = IdleMonitor
  /\ ret = NoReturn
  /\ pending = <<>>

DefaultConfigSpec == DefaultConfigInit /\ [][Next]_vars

(* C20: with DRY_RUN_MODE not set the service is in dry-run mode, and no   *)
(* buyback, called directly or by a monitoring check, submits a real swap  *)
(* (which would record the time of a live trade).                          *)
C20_DryRunByDefault ==
  [][(ExecuteBuybackCall \/ MonitorCheck)
       => /\ isDryRun
          /\ recentTrade' = recentTrade]_vars

(* ------------------------------ C21 ----------------------------- *)

(* C21: an executeSwap call that runs as a dry run never calls the         *)
(* exchange's swap and never records a live trade; when its guards and its *)
(* quote pass it returns success, and for every request the dry run that   *)
(* succeeds reports the quoted output as its expected output.              *)
C21_DryRunSubmitsNothing ==
  [][/\ (ExecuteSwapCall /\ ret'.dryRun)
          => /\ ~ret'.submitted
             /\ recentTrade' = recentTrade
             /\ ret'.success <=> ret'.error = "none"
             /\ ret'.error \in {"none", "range", "wait", "quote"}
     /\ \A pair \in SwapPairs, amount \in Amounts :
          \A env \in SwapEnvsFor(World, pair[1], amount, TRUE) :
            LET r == executeSwap(World, pair[1], pair[2], amount, TRUE, env)
            IN /\ ~r.result.submitted
               /\ r.result.success
                    => /\ r.result.dryRun
                       /\ r.result.outAmount = getQuote(pair[1], pair[2], amount,
                                                        env.quoteOut).outTokenAmount]_vars

C21_Witness ==
  /\ ret.op = "executeSwap"
  /\ ret.dryRun
  /\ ret.success
  /\ ~ret.submitted
  /\ ~recentTrade
  /\ Len(trades) = 2
  /\ \A i \in 1..2 : trades[i].status = "COMPLETED"

(* ------------------------------ C22 ----------------------------- *)

(* The guards executeSwap evaluates before its first await. *)
GuardRejection(w, amount) ==
  IF amount < minTradeAmount \/ amount > maxTradeAmount THEN "range"
  ELSE IF w.recentTrade THEN "wait"
  ELSE "none"

(* The part of executeSwap after its guards, run when the awaited quote     *)
(* arrives: the guards were evaluated when the call began and are not       *)
(* evaluated again.                                                         *)
resumeSwap(w, request, env) ==
  LET r == executeSwap([w EXCEPT !.recentTrade = FALSE], request.fromToken, request.toToken,
                       request.amount, request.dryRun, env)
  IN [r EXCEPT !.w.recentTrade = IF r.result.submitted /\ r.result.success
                                   THEN TRUE ELSE w.recentTrade]

Remove(seq, i) == SubSeq(seq, 1, i - 1) \o SubSeq(seq, i + 1, Len(seq))

(* A caller invokes executeSwap: the call is rejected by a guard, or it is  *)
(* suspended at the await of its quote.                                     *)
SwapBegin ==
  \E pair \in SwapPairs, amount \in Amounts, dryRun \in BOOLEAN, logOk \in BOOLEAN :
    /\ Len(trades) + Len(pending) < MaxTrades
    /\ IF GuardRejection(World, amount) # "none"
         THEN LET r == executeSwap(World, pair[1], pair[2], amount, dryRun,
                                   [quoteOut |-> QuoteFail, swapOk |-> TRUE,
                                    logOk |-> logOk, createOk |-> TRUE])
              IN /\ SetWorld(r.w)
                 /\ ret' = [NoReturn EXCEPT !.op = "executeSwap",
                                            !.success = r.result.success,
                                            !.error = r.result.error,
                                            !.swapExecuted = r.result.success,
                                            !.dryRun = r.result.dryRun,
                                            !.submitted = r.result.submitted,
                                            !.fromSymbol = formatTokenName(pair[1])]
                 /\ pending' = pending
         ELSE /\ logOk
              /\ pending' = Append(pending, [fromToken |-> pair[1], toToken |-> pair[2],
                                             amount |-> amount, dryRun |-> dryRun])
              /\ UNCHANGED <<positions, trades, recentTrade, ret>>
    /\ UNCHANGED <<isDryRun, faults, mon>>

(* The quote of a suspended call arrives and the call runs to its end. *)
SwapResume(i) ==
  \E env \in SwapEnvsFor([World EXCEPT !.recentTrade = FALSE], pending[i].fromToken,
                         pending[i].amount, pending[i].dryRun) :
    LET r == resumeSwap(World, pending[i], env)
    IN /\ SetWorld(r.w)
       /\ ret' = [NoReturn EXCEPT !.op = "executeSwap",
                                  !.success = r.result.success,
                                  !.error = r.result.error,
                                  !.swapExecuted = r.result.success,
                                  !.dryRun = r.result.dryRun,
                                  !.submitted = r.result.submitted,
                                  !.fromSymbol = formatTokenName(pending[i].fromToken)]
       /\ pending' = Remove(pending, i)
       /\ UNCHANGED <<isDryRun, faults, mon>>

SwapResumeCall == \E i \in 1..Len(pending) : SwapResume(i)

(* Swap requests that arrive while earlier ones are still awaiting. *)
InterleavedNext ==
  \/ SwapBegin
  \/ SwapResumeCall
  \/ Tick

InterleavedSpec == Init /\ [][InterleavedNext]_vars

(* C22: a swap requested less than minTimeBetweenTrades after the last     *)
(* live trade is rejected, and no live swap is executed less than          *)
(* minTimeBetweenTrades after another, however the requests interleave.    *)
C22_LiveSwapsSpaced ==
  [][/\ (SwapBegin /\ recentTrade)
          => /\ pending' = pending
             /\ ret'.op = "executeSwap"
             /\ ~ret'.success
     /\ \A i \in 1..Len(pending) :
          (SwapResume(i) /\ ret'.submitted /\ ret'.success) => ~recentTrade]_vars

(* ------------------------------ C23 ----------------------------- *)

OutOfRange(amount) == amount < minTradeAmount \/ amount > maxTradeAmount

(* C23: a swap whose amount is outside [minTradeAmount, maxTradeAmount] is *)
(* rejected with the range error whatever the exchange would have answered *)
(* to a quote or a swap, it is not submitted, and it opens no position and *)
(* records no live trade; a buyback of a position whose token amount is    *)
(* outside the range fails in the same way and does not close the position. *)
C23_RangeGuardFirst ==
  [][/\ \A pair \in SwapPairs, amount \in Amounts, dryRun \in BOOLEAN :
          \A quoteOut \in QuoteOuts, swapOk \in BOOLEAN :
            OutOfRange(amount)
              => LET r == executeSwap(World, pair[1], pair[2], amount, dryRun,
                                      [quoteOut |-> quoteOut, swapOk |-> swapOk,
                                       logOk |-> TRUE, createOk |-> TRUE])
                 IN /\ ~r.result.success
                    /\ r.result.error = "range"
                    /\ ~r.result.submitted
                    /\ r.w.positions = positions
                    /\ r.w.recentTrade = recentTrade
     /\ (ExecuteSwapCall /\ ret'.error = "range")
          => /\ ~ret'.success
             /\ ~ret'.submitted
             /\ positions' = positions
             /\ recentTrade' = recentTrade
     /\ \A p \in 1..Len(positions) :
          (ExecuteBuybackOn(p) /\ OutOfRange(positions[p].token_amount))
            => /\ ~ret'.success
               /\ ~ret'.swapExecuted
               /\ positions'[p].status # "CLOSED"
               /\ recentTrade' = recentTrade
     /\ (CheckStep /\ NewResult.decision \in ExitDecisions
           /\ OutOfRange(positions[CheckedId].token_amount))
          => /\ NewResult.buybackFailed
             /\ ~NewResult.buybackExecuted
             /\ ~ret'.swapExecuted
             /\ positions'[CheckedId].status # "CLOSED"
             /\ recentTrade' = recentTrade]_vars

C23_Witness ==
  /\ ret.op = "executeSwap"
  /\ ret.error = "range"
  /\ ~ret.success
  /\ \E p \in 1..Len(positions) :
       /\ OutOfRange(positions[p].token_amount)
       /\ positions[p].status = "FAILED"

(* ------------------------------ C24 ----------------------------- *)

(* Threshold fractions (in 1/FractionScale), PnL percentages and entry     *)
(* prices the evaluator is tried on.                                       *)
ProfitFractions == {1, 5, 50}
LossFractions == {-50, -2, -1}
PnLPercentages ==
  {-100, 0, 100} \cup {t + d : t \in ProfitFractions \cup LossFractions, d \in {-1, 0, 1}}
EntryPrices == {1, 100, 4000}

(* The decision the thresholds call for. *)
DecisionFor(pnlPercentage, profitPercent, lossPercent) ==
  CASE pnlPercentage >= profitPercent -> "PROFIT_TARGET"
    [] pnlPercentage < profitPercent /\ pnlPercentage <= lossPercent -> "STOP_LOSS"
    [] OTHER -> "HOLD"

(* C24: with profitThreshold > 0 > lossThreshold the evaluator answers     *)
(* PROFIT_TARGET exactly when the PnL percentage is at or above the profit *)
(* threshold in percent, STOP_LOSS exactly when it is at or below the loss *)
(* threshold in percent, HOLD otherwise, never two of them; a price equal  *)
(* to the entry price gives HOLD; and every check that evaluates a         *)
(* position reports the decision its PnL percentage calls for.             *)
C24_DecisionByThresholds ==
  [][/\ \A profit \in ProfitFractions, loss \in LossFractions, pnl \in PnLPercentages :
          LET d == shouldBuyback(pnl, ThresholdToPercent(profit), ThresholdToPercent(loss))
          IN /\ d.reason = "PROFIT_TARGET" <=> pnl >= profit
             /\ d.reason = "STOP_LOSS" <=> pnl <= loss
             /\ d.reason = "HOLD" <=> (loss < pnl /\ pnl < profit)
             /\ d.shouldBuy <=> d.reason \in ExitDecisions
             /\ d.reason = DecisionFor(pnl, (profit * 100) \div FractionScale,
                                       (loss * 100) \div FractionScale)
     /\ \A profit \in ProfitFractions, loss \in LossFractions, entryPrice \in EntryPrices :
          /\ calculatePnLPercentage(entryPrice, entryPrice).ok
          /\ shouldBuyback(calculatePnLPercentage(entryPrice, entryPrice).value,
                           ThresholdToPercent(profit),
                           ThresholdToPercent(loss)).reason = "HOLD"
     /\ (CheckStep /\ NewResult.decision # "none")
          => NewResult.decision =
               DecisionFor(NewResult.pnl_percentage,
                           (positions[CheckedId].profit_threshold * 100) \div FractionScale,
                           (positions[CheckedId].loss_threshold * 100) \div FractionScale)]_vars

C24_Witness ==
  /\ ret.op = "monitorOpenPositions"
  /\ \E i \in 1..Len(ret.results), j \in 1..Len(ret.results) :
       /\ ret.results[i].decision = "PROFIT_TARGET"
       /\ ret.results[i].pnl_percentage = DefaultProfitThreshold
       /\ ret.results[j].decision = "STOP_LOSS"
       /\ ret.results[j].pnl_percentage = DefaultLossThreshold

(* ------------------------------ C25 ----------------------------- *)

(* Prices the oracle can report for a position, and prices no oracle       *)
(* should report.                                                          *)
ReportedPrices(entry_price) ==
  {priceData.price : priceData \in {r \in PriceReplies(entry_price) : r.kind = "ok"}}

InvalidPrices == {-100, -1}

(* C25: the evaluator accepts every entry price above zero with every      *)
(* current price of zero or more, a current price of zero giving -100, and *)
(* fails exactly when the entry price is zero or less or the current price *)
(* is below zero; so a check that was given a price by the oracle never    *)
(* fails on its input.                                                     *)
C25_EvaluatorDomain ==
  [][CheckStep
       => /\ \A entryPrice \in {positions[CheckedId].entry_price, 0} \cup InvalidPrices,
                currentPrice \in ReportedPrices(positions[CheckedId].entry_price)
                                  \cup InvalidPrices :
               LET pnl == calculatePnLPercentage(entryPrice, currentPrice)
               IN /\ pnl.ok <=> (entryPrice > 0 /\ currentPrice >= 0)
                  /\ (entryPrice > 0 /\ currentPrice = 0) => pnl.value = -100
          /\ NewResult.decision = "none" => NewResult.error = "price"]_vars

(* ------------------------------ C26 ----------------------------- *)

(* C26: a monitoring cycle whose load answers with no open position        *)
(* returns at once with success true, the three counters at zero and no    *)
(* results; it does not look up the price oracle, starts no check and      *)
(* executes no swap, and nothing is written.                               *)
C26_EmptyBatchIsSuccess ==
  [][(MonitorStart /\ Len(getOpenPositions(positions)) = 0 /\ ret'.error # "storage")
       => /\ ret'.op = "monitorOpenPositions"
          /\ ret'.success
          /\ ret'.error = "none"
          /\ ret'.positionsChecked = 0
          /\ ret'.buybacksExecuted = 0
          /\ ret'.buybacksFailed = 0
          /\ ret'.results = <<>>
          /\ ~ret'.swapExecuted
          /\ mon'.pc = "idle"
          /\ positions' = positions
          /\ trades' = trades
          /\ recentTrade' = recentTrade]_vars

C26_Witness ==
  /\ ret.op = "monitorOpenPositions"
  /\ ret.success
  /\ ret.positionsChecked = 0
  /\ ret.results = <<>>
  /\ Len(positions) = 2
  /\ Len(getOpenPositions(positions)) = 0
  /\ mon.pc = "idle"

(* ------------------------------ C27 ----------------------------- *)

(* C27: when the check that a monitoring cycle is about to make is of an   *)
(* OPEN position and finds a price that calls for PROFIT_TARGET or         *)
(* STOP_LOSS, and the exchange and the storage answer every request, that  *)
(* check executes the buyback and leaves the position CLOSED.              *)
C27_ExitDecisionCloses ==
  (mon.pc = "checking" /\ positions[CheckedId].status = "OPEN")
    => \A priceData \in PriceReplies(positions[CheckedId].entry_price) :
         ReachesBuyback(positions[CheckedId], priceData)
           => LET r == checkPositionForBuyback(World, CheckedId, priceData, isDryRun,
                                               SucceedingEnv)
              IN /\ r.result.buybackExecuted
                 /\ r.w.positions[CheckedId].status = "CLOSED"

(* ------------------------------ C28 ----------------------------- *)

(* The tables as a step leaves them, seen once the waiting time is over. *)
LaterWorld == [positions |-> positions', trades |-> trades', recentTrade |-> FALSE]

(* C28: once a check has executed the live exit swap of a position, no     *)
(* check of a later cycle executes an exit swap of that position again: if *)
(* the position is still loaded as OPEN, a later check of it swaps nothing. *)
C28_AtMostOneExitSwap ==
  [][(CheckStep /\ ~isDryRun /\ ret'.swapExecuted /\ positions'[CheckedId].status = "OPEN")
       => \A priceData \in PriceReplies(positions'[CheckedId].entry_price) :
            ~checkPositionForBuyback(LaterWorld, CheckedId, priceData, isDryRun,
                                     SucceedingEnv).swapExecuted]_vars

(* ------------------------------ C29 ----------------------------- *)

(* C29: no check result has buybackExecuted and buybackFailed both true,   *)
(* and a result has buybackExecuted true exactly when its check moved the  *)
(* position to CLOSED.                                                     *)
C29_FlagsExclusive ==
  [][CheckStep
       => /\ ~(NewResult.buybackExecuted /\ NewResult.buybackFailed)
          /\ NewResult.buybackExecuted
               <=> (positions[CheckedId].status # "CLOSED"
                    /\ positions'[CheckedId].status = "CLOSED")]_vars

(* ------------------------------ C30 ----------------------------- *)

(* C30: in the summary of a cycle that checked at least one position the   *)
(* results list has positionsChecked entries, buybacksExecuted is the      *)
(* number of results with buybackExecuted true and buybacksFailed is the   *)
(* number of results with buybackFailed true.                              *)
C30_CountersMatchResults ==
  (ret.op = "monitorOpenPositions" /\ ret.positionsChecked > 0)
    => /\ Len(ret.results) = ret.positionsChecked
       /\ ret.buybacksExecuted =
            Cardinality({i \in 1..Len(ret.results) : ret.results[i].buybackExecuted})
       /\ ret.buybacksFailed =
            Cardinality({i \in 1..Len(ret.results) : ret.results[i].buybackFailed})

====
